---- MODULE Spec2Model ----
(***************************************************************************)
(* VANB orchestration core: PipelineManager (core/pipeline_manager.py),    *)
(* PipelineLifecycleManager and PipelineFactory (core/pipeline_factory.py) *)
(* and the NDI name allocator of NDIManager (core/ndi_manager.py).         *)
(*                                                                         *)
(* Strings that the code parses (NDI names, prefixes) are sequences of     *)
(* one-character strings; strings the code only stores and compares (the   *)
(* RTMP URL, mode tags) are TLA+ strings.  Python's None is the empty      *)
(* tuple, an Optional[X] that is present is the one-element tuple <<x>>.   *)
(***************************************************************************)
EXTENDS Integers, Sequences, FiniteSets, TLC

VARIABLES
    context,      \* PipelineManager._context: None or <<PipelineContext>>
    monitoring,   \* PipelineManager._monitoring
    timers,       \* GLib timeout sources running monitor(): [old, cur]
    handles,      \* every IPipeline built by the factory, by identity
    last,         \* what the last operation on the PipelineManager did
    restarts,     \* _restart_pipeline calls since the last external start
    lm,           \* a PipelineLifecycleManager used on its own
    lmLog,        \* the calls made on lm and what they returned
    peers,        \* the NDI names a scan of the network collects
    allocated,    \* the last generate_unique_name call on an NDIManager used on its own
    now,          \* what time.time() returns
    lmPipeline,   \* the IPipeline that lm wraps and the last start()/stop() of lm
    built,        \* the last create_pipeline call on a PipelineFactory used on its own
    bus           \* a created BasePipeline and the bus messages its handler was given

vars == <<context, monitoring, timers, handles, last, restarts, lm, lmLog,
          peers, allocated, now, lmPipeline, built, bus>>
pmVars == <<context, monitoring, timers, handles, last, restarts>>
lmVars == <<lm, lmLog>>
ndiVars == <<peers, allocated>>
\* what an operation on the PipelineManager leaves alone
besidePM == <<lm, lmLog, peers, allocated, lmPipeline, built, bus>>

None == <<>>

(***************************************************************************)
(* Bounds of the model.                                                    *)
(***************************************************************************)
\* handles the factory may build in one run
MaxHandles == 5
\* handles the factory may build in a run that also queries the manager
MaxApiHandles == 2
\* the largest value of the clock
MaxClock == 1
\* start() and stop() calls on a lifecycle manager used on its own
MaxLifecycle == 2
\* bus messages given to one message handler
MaxMessages == 3
\* calls recorded on the stand-alone lifecycle manager
MaxLog == 9

(***************************************************************************)
(* Python string operations on sequences of characters.                    *)
(***************************************************************************)
Digits == <<"0", "1", "2", "3", "4", "5", "6", "7", "8", "9">>

IsDigit(c) == \E i \in 1..10 : Digits[i] = c

DigitVal(c) == (CHOOSE i \in 1..10 : Digits[i] = c) - 1

\* code points of the characters the model's names are written in
Ord(c) ==
    CASE c = " " -> 32 [] c = "(" -> 40 [] c = ")" -> 41 [] c = "+" -> 43
      [] c = "-" -> 45 [] IsDigit(c) -> 48 + DigitVal(c)
      [] c = "A" -> 65 [] c = "B" -> 66 [] c = "C" -> 67 [] c = "H" -> 72
      [] c = "M" -> 77 [] c = "N" -> 78 [] c = "P" -> 80 [] c = "R" -> 82
      [] c = "V" -> 86 [] c = "x" -> 120

\* s[i:i+len(pat)] == pat, i counted from 1
OccursAt(s, pat, i) ==
    /\ i >= 1
    /\ i + Len(pat) - 1 <= Len(s)
    /\ \A k \in 1..Len(pat) : s[i + k - 1] = pat[k]

\* the places where pat occurs in s
Occurrences(s, pat) == {i \in 1..(Len(s) - Len(pat) + 1) : OccursAt(s, pat, i)}

\* pat in s
Contains(s, pat) == Occurrences(s, pat) # {}

\* s.find(pat) counted from 1; 0 when pat does not occur
Find(s, pat) ==
    LET occ == Occurrences(s, pat)
    IN  IF occ = {} THEN 0 ELSE CHOOSE i \in occ : \A j \in occ : i <= j

\* s.startswith(pat)
StartsWith(s, pat) == OccursAt(s, pat, 1)

\* s.split(pat)[0]
SplitFirst(s, pat) ==
    LET at == Find(s, pat)
    IN  IF at = 0 THEN s ELSE SubSeq(s, 1, at - 1)

\* s.split(pat)[-1]: split cuts at the occurrences found from left to right
RECURSIVE SplitLast(_, _)
SplitLast(s, pat) ==
    LET at == Find(s, pat)
    IN  IF at = 0 THEN s ELSE SplitLast(SubSeq(s, at + Len(pat), Len(s)), pat)

\* s.strip() for the one whitespace character of the model's alphabet
RECURSIVE Strip(_)
Strip(s) ==
    IF s # <<>> /\ Head(s) = " " THEN Strip(Tail(s))
    ELSE IF s # <<>> /\ s[Len(s)] = " " THEN Strip(SubSeq(s, 1, Len(s) - 1))
    ELSE s

RECURSIVE DecimalValue(_)
DecimalValue(ds) ==
    IF ds = <<>> THEN 0
    ELSE 10 * DecimalValue(SubSeq(ds, 1, Len(ds) - 1)) + DigitVal(ds[Len(ds)])

\* int(s): [ok |-> FALSE] stands for ValueError
ParseInt(s) ==
    LET t == Strip(s)
        signed == t # <<>> /\ t[1] \in {"+", "-"}
        ds == IF signed THEN Tail(t) ELSE t
    IN  IF ds # <<>> /\ \A i \in 1..Len(ds) : IsDigit(ds[i])
        THEN [ok |-> TRUE,
              val |-> IF signed /\ t[1] = "-" THEN 0 - DecimalValue(ds)
                      ELSE DecimalValue(ds)]
        ELSE [ok |-> FALSE, val |-> 0]

\* str(n) for n >= 0
RECURSIVE FormatInt(_)
FormatInt(n) ==
    IF n < 10 THEN <<Digits[n + 1]>>
    ELSE FormatInt(n \div 10) \o <<Digits[(n % 10) + 1]>>

\* a < b for Python strings
RECURSIVE StrLess(_, _)
StrLess(a, b) ==
    IF b = <<>> THEN FALSE
    ELSE IF a = <<>> THEN TRUE
    ELSE IF Head(a) # Head(b) THEN Ord(Head(a)) < Ord(Head(b))
    ELSE StrLess(Tail(a), Tail(b))

\* sorted(S) for a set of distinct strings
RECURSIVE SortedNames(_)
SortedNames(S) ==
    IF S = {} THEN <<>>
    ELSE LET m == CHOOSE x \in S : \A y \in S \ {x} : StrLess(x, y)
         IN  <<m>> \o SortedNames(S \ {m})

(***************************************************************************)
(* NDIManager (core/ndi_manager.py).  A scan is what NDIScanner.scan_sources*)
(* returned: None when the device monitor could not be set up, else <<S>>  *)
(* with S the names it collected (it appends a name once).                 *)
(***************************************************************************)
VANB_RX == <<"V", "A", "N", "B", "-", "R", "x">>
VANB_RX_DASH == VANB_RX \o <<"-">>

\* NDIManager.scan_sources: the NDISource list, sorted by name
scan_sources(scan) ==
    IF scan = None THEN <<>>
    ELSE LET names == SortedNames(scan[1])
         IN  [i \in 1..Len(names) |-> [name |-> names[i], is_active |-> TRUE]]

\* int(name.split("VANB-Rx-")[-1].split(")")[0]) for the names holding "VANB-Rx-"
parsed_numbers(ndi_names) ==
    {ParseInt(SplitFirst(SplitLast(ndi_names[i], VANB_RX_DASH), <<")">>)) :
        i \in {j \in 1..Len(ndi_names) : Contains(ndi_names[j], VANB_RX_DASH)}}

\* _get_sequence_number that drops the sign of the numbers it parses
existing_numbers_unsigned(ndi_names) ==
    {IF r.val < 0 THEN 0 - r.val ELSE r.val :
        r \in {p \in parsed_numbers(ndi_names) : p.ok /\ p.val # 0}}

\* the numbers _get_sequence_number collects from the names
existing_numbers(ndi_names) ==
    {r.val : r \in {p \in parsed_numbers(ndi_names) : p.ok /\ p.val > 0}}

\* while sequence_number in existing_numbers: sequence_number += 1
RECURSIVE first_free(_, _)
first_free(sequence_number, numbers) ==
    IF sequence_number \in numbers
    THEN first_free(sequence_number + 1, numbers)
    ELSE sequence_number

_get_sequence_number(ndi_names) == first_free(1, existing_numbers(ndi_names))

\* _verify_ndi_name that accepts every candidate
_verify_ndi_name_unchecked(ndi_name, ndi_names) == TRUE

_verify_ndi_name(ndi_name, ndi_names) ==
    /\ StartsWith(ndi_name, VANB_RX_DASH)
    /\ LET r == ParseInt(SplitLast(ndi_name, <<"-">>))
       IN  r.ok /\ r.val > 0
    /\ ~\E i \in 1..Len(ndi_names) : ndi_name = ndi_names[i]

\* NDIManager.generate_unique_name: [ok |-> FALSE] stands for the ValueError
generate_unique_name(prefix, scan) ==
    LET sources == scan_sources(scan)
        ndi_names == [i \in 1..Len(sources) |-> sources[i].name]
        new_ndi_name == prefix \o <<"-">> \o FormatInt(_get_sequence_number(ndi_names))
    IN  IF _verify_ndi_name(new_ndi_name, ndi_names)
        THEN [ok |-> TRUE, name |-> new_ndi_name]
        ELSE [ok |-> FALSE, name |-> <<>>]

(***************************************************************************)
(* The network the model runs in: the names a scan may collect, and the    *)
(* prefixes callers pass.  HOST_RX1 is how an output named VANB-Rx-1 of    *)
(* host H is announced.                                                     *)
(***************************************************************************)
CAM == <<"C", "A", "M">>
HOST_RX1 == <<"H", " ", "(">> \o VANB_RX_DASH \o <<"1", ")">>
PeerNames == {CAM, HOST_RX1}

Scans == {None} \cup {<<S>> : S \in SUBSET PeerNames}

Prefixes == {VANB_RX, <<"P">>}

\* generate_unique_name and scan_sources on the scans and prefixes of the model,
\* computed once
unique_names == [prefix \in Prefixes, scan \in Scans |-> generate_unique_name(prefix, scan)]

scanned_sources == [scan \in Scans |-> scan_sources(scan)]

(***************************************************************************)
(* PipelineLifecycleManager (core/pipeline_factory.py).  A manager is the  *)
(* record [retry_count]; the handle it wraps is kept in `handles`.         *)
(***************************************************************************)
MaxRetries == 3

\* PipelineLifecycleManager.__init__
new_lifecycle_manager == [retry_count |-> 0]

\* handle_error with a counter that stops counting once it is above the maximum
handle_error_count_saturating(m) ==
    IF m.retry_count > MaxRetries THEN m.retry_count ELSE m.retry_count + 1

\* handle_error: the counter after the call
handle_error_count(m) == m.retry_count + 1

\* handle_error comparing with >= where the code compares with >
handle_error_returns_early(m) == ~(handle_error_count(m) >= MaxRetries)

\* handle_error: the value returned, decided on the incremented counter
handle_error_returns(m) == ~(handle_error_count(m) > MaxRetries)

handle_error(m) ==
    [m |-> [m EXCEPT !.retry_count = handle_error_count(m)],
     ret |-> handle_error_returns(m)]

\* reset_retry_count that leaves the counter as it is
reset_retry_count_kept(m) == m

reset_retry_count(m) == [m EXCEPT !.retry_count = 0]

\* pipeline.stop() as the manager sees it: the call is made, then it returns or raises
handle_stop(h) == [h EXCEPT !.state = "stopped", !.stops = @ + 1]

\* PipelineLifecycleManager.stop that runs the hooks and never calls pipeline.stop()
lifecycle_stop_hooks_only(h, stop_raises) ==
    [h |-> h, calls |-> <<"pre_stop", "post_stop">>]

\* PipelineLifecycleManager.stop: pre_stop, pipeline.stop(), post_stop, nothing propagates
lifecycle_stop(h, stop_raises) ==
    [h |-> handle_stop(h),
     calls |-> IF stop_raises THEN <<"pre_stop", "stop">>
               ELSE <<"pre_stop", "stop", "post_stop">>]

\* PipelineLifecycleManager.stop of a manager whose hooks and handle may raise;
\* how is "ok", "pre_raise", "stop_raise" or "post_raise"
lifecycle_stop_hooked(h, how) ==
    CASE how = "pre_raise" -> [h |-> h, calls |-> <<"pre_stop">>]
      [] how = "stop_raise" -> lifecycle_stop(h, TRUE)
      [] how = "post_raise" ->
            [h |-> handle_stop(h), calls |-> <<"pre_stop", "stop", "post_stop">>]
      [] OTHER -> lifecycle_stop(h, FALSE)

\* PipelineLifecycleManager.start that runs all four steps whatever they answer
lifecycle_start_all_steps(h, eng) ==
    [h |-> [h EXCEPT !.state = "playing"], ret |-> (eng = "ok"),
     calls |-> <<"pre_start", "create", "start", "post_start">>]

\* PipelineLifecycleManager.start: pre_start, create(), start(), post_start.
\* eng is what the hooks and the engine do: "ok", "pre_false", "pre_raise",
\* "create_false" (BasePipeline.create returns False), "create_raise",
\* "start_false", "start_raise" (BasePipeline.start raises) or "post_raise"
lifecycle_start(h, eng) ==
    CASE eng \in {"pre_false", "pre_raise"} ->
            [h |-> h, ret |-> FALSE, calls |-> <<"pre_start">>]
      [] eng \in {"create_false", "create_raise"} ->
            [h |-> [h EXCEPT !.state = "create_failed"], ret |-> FALSE,
             calls |-> <<"pre_start", "create">>]
      [] eng \in {"start_false", "start_raise"} ->
            [h |-> [h EXCEPT !.state = "start_failed"], ret |-> FALSE,
             calls |-> <<"pre_start", "create", "start">>]
      [] eng = "post_raise" ->
            [h |-> [h EXCEPT !.state = "playing"], ret |-> FALSE,
             calls |-> <<"pre_start", "create", "start", "post_start">>]
      [] OTHER ->
            [h |-> [h EXCEPT !.state = "playing"], ret |-> TRUE,
             calls |-> <<"pre_start", "create", "start", "post_start">>]

(***************************************************************************)
(* BaseMessageHandler (core/base_pipeline.py).  h is the pipeline the      *)
(* handler belongs to; a handler answers [h, ret].                         *)
(***************************************************************************)
_handle_eos(h) == [h |-> handle_stop(h), ret |-> FALSE]

_handle_error(h) == [h |-> handle_stop(h), ret |-> FALSE]

\* _handle_warning that stops the pipeline as _handle_error does
_handle_warning_stopping(h) == [h |-> handle_stop(h), ret |-> FALSE]

_handle_warning(h) == [h |-> h, ret |-> TRUE]

_handle_state_changed(h) == [h |-> h, ret |-> TRUE]

_handle_element(h) == [h |-> h, ret |-> TRUE]

_handle_qos(h) == [h |-> h, ret |-> TRUE]

\* the keys of the dict "handlers"
handlers == {"EOS", "ERROR", "WARNING", "STATE_CHANGED", "ELEMENT", "QOS"}

\* BaseMessageHandler.handle_message for a message of the type message_type
handle_message(h, message_type) ==
    IF message_type \notin handlers THEN [h |-> h, ret |-> TRUE]
    ELSE CASE message_type = "EOS" -> _handle_eos(h)
           [] message_type = "ERROR" -> _handle_error(h)
           [] message_type = "WARNING" -> _handle_warning(h)
           [] message_type = "STATE_CHANGED" -> _handle_state_changed(h)
           [] message_type = "ELEMENT" -> _handle_element(h)
           [] OTHER -> _handle_qos(h)

(***************************************************************************)
(* PipelineFactory (core/pipeline_factory.py, core/interfaces.py).         *)
(***************************************************************************)
Has(d, key) == key \in DOMAIN d

\* dict.get(key, default)
Get(d, key, default) == IF Has(d, key) THEN d[key] ELSE default

\* required parameters that are the URL alone
required_params_url_only(pipeline_type) == {"rtmp_url"}

required_params(pipeline_type) ==
    IF pipeline_type = "rx" THEN {"rtmp_url", "ndi_name"} ELSE {"rtmp_url", "ndi_source"}

\* AbstractPipelineFactory.create_pipeline with the registered _create_rx_pipeline
\* and _create_tx_pipeline: None, or <<handle>> freshly constructed
create_pipeline(pipeline_type, config, ctor_raises) ==
    IF pipeline_type \notin {"rx", "tx"} THEN None
    ELSE IF ~(required_params(pipeline_type) \subseteq DOMAIN config) THEN None
    ELSE IF ctor_raises THEN None
    ELSE <<[state |-> "constructed", stops |-> 0]>>

(***************************************************************************)
(* PipelineManager (core/pipeline_manager.py).  The operations are         *)
(* functions of the manager's state e = [context, monitoring, timers,      *)
(* handles, calls]; calls lists the collaborator calls the running         *)
(* operation has made so far.  in = [scan, ctor_raises, eng, stop_raises,  *)
(* now] is what the collaborators do during the operation: what the        *)
(* scanner returns, whether the pipeline constructor raises, what the      *)
(* engine does on create()/start(), whether pipeline.stop() raises, what   *)
(* time.time() returns.                                                    *)
(***************************************************************************)
\* auto-selection that takes the last active source
auto_select_last(active_sources) == active_sources[Len(active_sources)].name

\* "ndi_source = active_sources[0].name"
auto_select(active_sources) == active_sources[1].name

\* PipelineManager._create_pipeline_config: [ok |-> FALSE] stands for ValueError
_create_pipeline_config(mode, kwargs, scan) ==
    IF mode = "RECEIVE" THEN
        IF ~Has(kwargs, "rtmp_url") THEN [ok |-> FALSE, config |-> None, scanned |-> FALSE]
        ELSE LET ndi_name == unique_names[Get(kwargs, "prefix", VANB_RX), scan]
             IN  IF ~ndi_name.ok THEN [ok |-> FALSE, config |-> None, scanned |-> TRUE]
                 ELSE [ok |-> TRUE, scanned |-> TRUE,
                       config |-> [rtmp_url |-> kwargs["rtmp_url"],
                                   ndi_name |-> ndi_name.name]]
    ELSE
        IF ~Has(kwargs, "rtmp_url") THEN [ok |-> FALSE, config |-> None, scanned |-> FALSE]
        ELSE LET given == Get(kwargs, "ndi_source", <<>>)
                 sources == scanned_sources[scan]
                 active_sources == SelectSeq(sources, LAMBDA s : s.is_active)
             IN  IF given = <<>> /\ active_sources = <<>>
                 THEN [ok |-> FALSE, config |-> None, scanned |-> TRUE]
                 ELSE [ok |-> TRUE, scanned |-> (given = <<>>),
                       config |-> [ndi_source |-> IF given = <<>>
                                                  THEN auto_select(active_sources)
                                                  ELSE given,
                                   rtmp_url |-> kwargs["rtmp_url"],
                                   video_bitrate |-> Get(kwargs, "video_bitrate", 2000),
                                   audio_bitrate |-> Get(kwargs, "audio_bitrate", 128000),
                                   video_format |-> Get(kwargs, "video_format", "I420"),
                                   audio_rate |-> Get(kwargs, "audio_rate", 44100),
                                   audio_channels |-> Get(kwargs, "audio_channels", 2)]]

\* stop_pipeline whose "self._context = None" is skipped when pipeline.stop() raised
stop_context_kept_on_raise(e, stopped) ==
    [e EXCEPT !.monitoring = FALSE,
              !.timers = [old |-> @.old + @.cur, cur |-> 0],
              !.handles[e.context[1].pipeline] = stopped.h,
              !.calls = @ \o stopped.calls,
              !.context = IF stopped.calls = <<"pre_stop", "stop">> THEN @ ELSE None]

\* stop_pipeline with a context: the flag is cleared, the lifecycle stopped
\* (stopped is what lifecycle_manager.stop() did), the context dropped
stop_context(e, stopped) ==
    [e EXCEPT !.monitoring = FALSE,
              !.timers = [old |-> @.old + @.cur, cur |-> 0],
              !.handles[e.context[1].pipeline] = stopped.h,
              !.calls = @ \o stopped.calls,
              !.context = None]

\* stop_pipeline that runs pre_stop before it looks for a context
stop_pipeline_hook_first(e, in) ==
    IF e.context # None
    THEN stop_context(e, lifecycle_stop(e.handles[e.context[1].pipeline], in.stop_raises))
    ELSE [e EXCEPT !.calls = @ \o <<"pre_stop">>]

\* PipelineManager.stop_pipeline
stop_pipeline(e, in) ==
    IF e.context # None
    THEN stop_context(e, lifecycle_stop(e.handles[e.context[1].pipeline], in.stop_raises))
    ELSE e

\* PipelineManager._start_monitoring: sets the flag and adds the GLib timeout
_start_monitoring(e) ==
    IF e.monitoring THEN e
    ELSE [e EXCEPT !.monitoring = TRUE,
                   !.timers.cur = @ + 1,
                   !.calls = @ \o <<"timeout_add">>]

\* the calls e.calls followed by the calls cs
Called(e, cs) == [e EXCEPT !.calls = @ \o cs]

\* the context start_pipeline records before it starts the lifecycle
new_context(mode, id, config, start_time) ==
    <<[mode |-> mode, pipeline |-> id,
       lifecycle_manager |-> new_lifecycle_manager, start_time |-> start_time,
       config |-> config]>>

\* start_pipeline that drops the old context without stopping it
stop_existing_dropped(e, in) ==
    [e EXCEPT !.context = None, !.monitoring = FALSE,
              !.timers = [old |-> @.old + @.cur, cur |-> 0]]

\* start_pipeline, "if self._context and self._context.pipeline: self.stop_pipeline()"
stop_existing(e, in) == IF e.context # None THEN stop_pipeline(e, in) ELSE e

\* start_pipeline that starts the monitor for the first handle built only
start_recorded_first_only(e, ok) ==
    IF ~ok THEN [e |-> e, ret |-> FALSE, stage |-> "start", he |-> "none"]
    ELSE [e |-> IF Len(e.handles) > 1 THEN e ELSE _start_monitoring(e),
          ret |-> TRUE, stage |-> "ok", he |-> "none"]

\* start_pipeline from "if not lifecycle_manager.start()" on
start_recorded(e, ok) ==
    IF ~ok THEN [e |-> e, ret |-> FALSE, stage |-> "start", he |-> "none"]
    ELSE [e |-> _start_monitoring(e), ret |-> TRUE, stage |-> "ok", he |-> "none"]

\* start_pipeline: the context is recorded, then the lifecycle is started;
\* started is what lifecycle_manager.start() did to the new handle, start_time
\* what time.time() returned
start_handle(e, mode, config, started, start_time) ==
    start_recorded([e EXCEPT !.handles = Append(@, started.h),
                             !.calls = @ \o <<"construct">> \o started.calls,
                             !.context = new_context(mode, Len(e.handles) + 1, config,
                                                     start_time)],
                   started.ret)

\* start_pipeline that goes on to start monitoring when the factory returned None
start_built_monitored(e, mode, config, pipeline, in) ==
    IF pipeline = None
    THEN [e |-> _start_monitoring(Called(e, <<"construct">>)), ret |-> FALSE,
          stage |-> "factory", he |-> "none"]
    ELSE start_handle(e, mode, config, lifecycle_start(pipeline[1], in.eng), in.now)

\* start_pipeline from "if not pipeline" on; pipeline is what the factory returned
start_built(e, mode, config, pipeline, in) ==
    IF pipeline = None
    THEN [e |-> Called(e, <<"construct">>), ret |-> FALSE, stage |-> "factory",
          he |-> "none"]
    ELSE start_handle(e, mode, config, lifecycle_start(pipeline[1], in.eng), in.now)

\* start_pipeline once _create_pipeline_config has returned cfg or raised
start_configured(e, mode, cfg, in) ==
    IF ~cfg.ok
    THEN [e |-> Called(e, IF cfg.scanned THEN <<"scan">> ELSE <<>>),
          ret |-> FALSE, stage |-> "config", he |-> "none"]
    ELSE start_built(Called(e, IF cfg.scanned THEN <<"scan">> ELSE <<>>), mode, cfg.config,
                     create_pipeline(IF mode = "RECEIVE" THEN "rx" ELSE "tx",
                                     cfg.config, in.ctor_raises),
                     in)

\* PipelineManager.start_pipeline: the state it leaves and the value it returns
start_pipeline(e, mode, kwargs, in) ==
    start_configured(stop_existing(e, in), mode,
                     _create_pipeline_config(mode, kwargs, in.scan), in)

\* _restart_pipeline that passes on the saved mode and URL only
_restart_pipeline_url_only(e, in) ==
    IF e.context = None THEN [e |-> e, ret |-> FALSE, stage |-> "none", he |-> "none"]
    ELSE start_pipeline(Called(stop_pipeline(e, in), <<"sleep">>),
                        e.context[1].mode,
                        [rtmp_url |-> e.context[1].config.rtmp_url], in)

\* _restart_pipeline that returns without stopping or starting anything
_restart_pipeline_skipped(e, in) ==
    [e |-> e, ret |-> FALSE, stage |-> "none", he |-> "none"]

\* _restart_pipeline that sleeps before it stops the pipeline
_restart_pipeline_sleep_first(e, in) ==
    IF e.context = None THEN [e |-> e, ret |-> FALSE, stage |-> "none", he |-> "none"]
    ELSE start_pipeline(stop_pipeline(Called(e, <<"sleep">>), in),
                        e.context[1].mode, e.context[1].config, in)

\* PipelineManager._restart_pipeline
_restart_pipeline(e, in) ==
    IF e.context = None THEN [e |-> e, ret |-> FALSE, stage |-> "none", he |-> "none"]
    ELSE start_pipeline(Called(stop_pipeline(e, in), <<"sleep">>),
                        e.context[1].mode, e.context[1].config, in)

\* monitor() once is_running() has answered False: handle_error, then the restart
\* when it approves one; he is what handle_error returned
monitor_failed(e, he, in) ==
    IF he.ret
    THEN [_restart_pipeline(Called([e EXCEPT !.context[1].lifecycle_manager = he.m],
                                   <<"handle_error">>), in)
            EXCEPT !.ret = TRUE, !.he = "true"]
    ELSE [e |-> Called([e EXCEPT !.context[1].lifecycle_manager = he.m],
                       <<"handle_error">>),
          ret |-> TRUE, stage |-> "none", he |-> "false"]

\* monitor() that asks the handle for its stream before it looks at the flag
\* and the context
monitor_asks_first(e, vs, in) ==
    IF e.context = None \/ vs = "raise"
    THEN [e |-> Called(e, <<"verify_stream">>), ret |-> FALSE, stage |-> "none",
          he |-> "none"]
    ELSE IF vs = "alive"
    THEN [e |-> Called(e, <<"verify_stream">>), ret |-> TRUE, stage |-> "none",
          he |-> "none"]
    ELSE monitor_failed(Called(e, <<"verify_stream">>),
                        handle_error(e.context[1].lifecycle_manager), in)

\* monitor() that returns False after a check that found the stream alive
monitor_once(e, vs, in) ==
    IF ~e.monitoring THEN [e |-> e, ret |-> FALSE, stage |-> "none", he |-> "none"]
    ELSE IF e.context = None
    THEN [e |-> e, ret |-> TRUE, stage |-> "none", he |-> "none"]
    ELSE IF vs \in {"raise", "alive"}
    THEN [e |-> Called(e, <<"verify_stream">>), ret |-> FALSE, stage |-> "none",
          he |-> "none"]
    ELSE monitor_failed(Called(e, <<"verify_stream">>),
                        handle_error(e.context[1].lifecycle_manager), in)

\* the callback monitor() that _start_monitoring hands to GLib.timeout_add_seconds;
\* vs is what verify_stream() does: "alive", "dead" or "raise".
\* ret is the callback's return value: FALSE removes the timeout source
monitor(e, vs, in) ==
    IF ~e.monitoring THEN [e |-> e, ret |-> FALSE, stage |-> "none", he |-> "none"]
    ELSE IF e.context = None
    THEN [e |-> e, ret |-> TRUE, stage |-> "none", he |-> "none"]
    ELSE IF vs = "raise"
    THEN [e |-> Called(e, <<"verify_stream">>), ret |-> FALSE, stage |-> "none",
          he |-> "none"]
    ELSE IF vs = "alive"
    THEN [e |-> Called(e, <<"verify_stream">>), ret |-> TRUE, stage |-> "none",
          he |-> "none"]
    ELSE monitor_failed(Called(e, <<"verify_stream">>),
                        handle_error(e.context[1].lifecycle_manager), in)

\* PipelineManager.is_running; vs is what verify_stream() does.  value is the
\* value returned, raised tells that an exception left the method
is_running(e, vs) ==
    IF e.context = None
    THEN [value |-> <<FALSE>>, raised |-> FALSE, calls |-> <<>>]
    ELSE IF vs = "raise"
    THEN [value |-> None, raised |-> TRUE, calls |-> <<"verify_stream">>]
    ELSE [value |-> <<vs = "alive">>, raised |-> FALSE, calls |-> <<"verify_stream">>]

\* PipelineManager.get_stats; gs is what pipeline.get_stats() does ("ok" or
\* "raise"), t what time.time() returns
get_stats(e, gs, t) ==
    IF e.context = None
    THEN [value |-> None, raised |-> FALSE, calls |-> <<>>]
    ELSE IF gs = "raise"
    THEN [value |-> None, raised |-> TRUE, calls |-> <<"get_stats">>]
    ELSE [value |-> <<[running_time |-> t - e.context[1].start_time]>>,
          raised |-> FALSE, calls |-> <<"get_stats">>]

get_current_mode(e) == IF e.context # None THEN <<e.context[1].mode>> ELSE None

get_pipeline_config(e) == IF e.context # None THEN <<e.context[1].config>> ELSE None

(***************************************************************************)
(* The environment: what callers pass and what the collaborators do.       *)
(***************************************************************************)
Quiet == [scan |-> None, ctor_raises |-> FALSE, eng |-> "ok", stop_raises |-> FALSE,
          now |-> 0]

\* what the factory and the engine may do once a config is built
Outcomes ==
    {[ctor_raises |-> TRUE, eng |-> Quiet.eng]}
        \cup {[ctor_raises |-> FALSE, eng |-> x] : x \in {"ok", "create_false", "start_raise"}}

\* What the collaborators may do during start_pipeline(mode, **kwargs), one
\* input for each distinct course of the call: a collaborator that is not
\* reached during the call is held at its Quiet value
Courses(has_context, mode, kwargs) ==
    UNION {LET cfg == _create_pipeline_config(mode, kwargs, sc)
           IN  {[scan |-> sc, ctor_raises |-> o.ctor_raises, eng |-> o.eng,
                 stop_raises |-> sr, now |-> Quiet.now] :
                    o \in IF cfg.ok THEN Outcomes
                          ELSE {[ctor_raises |-> Quiet.ctor_raises, eng |-> Quiet.eng]},
                    sr \in IF has_context THEN BOOLEAN ELSE {Quiet.stop_raises}} :
           sc \in IF _create_pipeline_config(mode, kwargs, Quiet.scan).scanned
                  THEN Scans ELSE {Quiet.scan}}

\* What the collaborators may do during a restart of a context of this mode
\* and config: the courses of the start, with the network in any state
RestartCourses(mode, config) ==
    {[c EXCEPT !.scan = sc] : c \in Courses(TRUE, mode, config), sc \in Scans}

EmptyDict == [k \in {} |-> None]

Kwargs(mode) ==
    IF mode = "RECEIVE"
    THEN {EmptyDict, [rtmp_url |-> "rtmp://a"]}
            \cup {[rtmp_url |-> "rtmp://a", prefix |-> p] : p \in Prefixes}
    ELSE {EmptyDict, [rtmp_url |-> "rtmp://a"],
          [rtmp_url |-> "", ndi_source |-> CAM],
          [rtmp_url |-> "rtmp://a", ndi_source |-> <<>>],
          [rtmp_url |-> "rtmp://a", ndi_source |-> CAM]}

Modes == {"RECEIVE", "TRANSMIT"}

(***************************************************************************)
(* The state machine of one PipelineManager.                               *)
(***************************************************************************)
Manager == [context |-> context, monitoring |-> monitoring, timers |-> timers,
            handles |-> handles, calls |-> <<>>]

Install(e) ==
    /\ context' = e.context
    /\ monitoring' = e.monitoring
    /\ timers' = e.timers
    /\ handles' = e.handles

\* the arguments of an operation that takes none
NoRequest == [mode |-> "none", kwargs |-> EmptyDict, scan |-> None, vs |-> "none"]

\* the operation op, called with req (by the timeout source gen when it is
\* monitor()), leaves the state r.e and returns r.ret
Recorded(op, gen, req, r) ==
    /\ Install(r.e)
    /\ last' = [op |-> op, ret |-> r.ret, stage |-> r.stage, he |-> r.he,
                had_context |-> (context # None), calls |-> r.e.calls,
                gen |-> gen, req |-> req, value |-> None, raised |-> FALSE,
                at |-> now, prev |-> None]

\* the operation op leaves the state r.e and returns r.ret
Record(op, r) == Recorded(op, "none", NoRequest, r)

\* the timeout source gen has run monitor() while verify_stream() would do vs
\* and a scan would have collected scan; monitor() left r.e and returned r.ret
Fired(gen, vs, scan, r) ==
    /\ Recorded("monitor", gen, [NoRequest EXCEPT !.scan = scan, !.vs = vs],
                [r EXCEPT !.e.timers[gen] = IF r.ret THEN @ ELSE @ - 1])
    /\ restarts' = IF r.he = "true" THEN restarts + 1
                   ELSE IF monitoring /\ vs = "alive" THEN 0
                   ELSE restarts

Init ==
    /\ context = None
    /\ monitoring = FALSE
    /\ timers = [old |-> 0, cur |-> 0]
    /\ handles = <<>>
    /\ last = [op |-> "init", ret |-> FALSE, stage |-> "none", he |-> "none",
               had_context |-> FALSE, calls |-> <<>>, gen |-> "none",
               req |-> NoRequest, value |-> None, raised |-> FALSE,
               at |-> 0, prev |-> None]
    /\ restarts = 0
    /\ lm = new_lifecycle_manager
    /\ lmLog = <<>>
    /\ peers = {}
    /\ allocated = None
    /\ now = 0
    /\ lmPipeline = [h |-> [state |-> "constructed", stops |-> 0], op |-> "none",
                     how |-> "none", ret |-> FALSE, calls |-> <<>>, n |-> 0]
    /\ built = None
    /\ bus = [h |-> [state |-> "playing", stops |-> 0], log |-> <<>>]

\* a caller invokes start_pipeline(mode, **kwargs)
StartPipeline ==
    /\ Len(handles) < MaxHandles
    /\ \E mode \in Modes : \E kwargs \in Kwargs(mode) :
         \E in \in Courses(context # None, mode, kwargs) :
         Recorded("start_pipeline", "none",
                  [NoRequest EXCEPT !.mode = mode, !.kwargs = kwargs, !.scan = in.scan],
                  start_pipeline(Manager, mode, kwargs, [in EXCEPT !.now = now]))
    /\ restarts' = 0
    /\ UNCHANGED <<besidePM, now>>

\* a caller invokes stop_pipeline()
StopPipeline ==
    /\ \E sr \in IF context # None THEN BOOLEAN ELSE {Quiet.stop_raises} :
         Record("stop_pipeline",
                [e |-> stop_pipeline(Manager, [Quiet EXCEPT !.stop_raises = sr]),
                 ret |-> FALSE, stage |-> "none", he |-> "none"])
    /\ UNCHANGED <<restarts, besidePM, now>>

\* the event loop fires one registered monitor() timeout
Tick ==
    /\ \E gen \in {"old", "cur"} : \E vs \in {"alive", "dead", "raise"} :
       \E in \in IF monitoring /\ vs = "dead" /\ context # None
                 THEN RestartCourses(context[1].mode, context[1].config)
                 ELSE {Quiet} :
         /\ timers[gen] > 0
         /\ vs = "alive" => context # None /\ handles[context[1].pipeline].state = "playing"
         /\ vs = "dead" => Len(handles) < MaxHandles
         /\ Fired(gen, vs, in.scan, monitor(Manager, vs, [in EXCEPT !.now = now]))
    /\ UNCHANGED <<besidePM, now>>

Next == StartPipeline \/ StopPipeline \/ Tick

Spec == Init /\ [][Next]_vars

(***************************************************************************)
(* The whole public surface of one PipelineManager, with the wall clock.   *)
(***************************************************************************)
\* the query op answered q.  at is the clock
\* reading during the call, prev what the call before it returned when both are
\* get_stats() calls
Answered(op, q) ==
    last' = [op |-> op, ret |-> FALSE, stage |-> "none", he |-> "none",
                had_context |-> (context # None), calls |-> q.calls,
                gen |-> "none", req |-> NoRequest, value |-> q.value,
                raised |-> q.raised, at |-> now,
                prev |-> IF op = "get_stats" /\ last.op = "get_stats"
                         THEN last.value ELSE None]

\* a caller invokes is_running()
IsRunning ==
    \E vs \in {"alive", "dead", "raise"} :
        /\ vs = "alive" => context # None /\ handles[context[1].pipeline].state = "playing"
        /\ Answered("is_running", is_running(Manager, vs))
        /\ UNCHANGED <<context, monitoring, timers, handles, restarts, besidePM, now>>

\* a caller invokes get_stats(); the clock's resolution is finer than the time
\* between two calls, so that two calls in a row never read the same time
GetStats ==
    \E gs \in {"ok", "raise"} :
        /\ last.op = "get_stats" => last.at # now
        /\ Answered("get_stats", get_stats(Manager, gs, now))
        /\ UNCHANGED <<context, monitoring, timers, handles, restarts, besidePM, now>>

\* a caller invokes get_current_mode()
GetCurrentMode ==
    /\ Answered("get_current_mode",
                [value |-> get_current_mode(Manager), raised |-> FALSE, calls |-> <<>>])
    /\ UNCHANGED <<context, monitoring, timers, handles, restarts, besidePM, now>>

\* a caller invokes get_pipeline_config()
GetPipelineConfig ==
    /\ Answered("get_pipeline_config",
                [value |-> get_pipeline_config(Manager), raised |-> FALSE, calls |-> <<>>])
    /\ UNCHANGED <<context, monitoring, timers, handles, restarts, besidePM, now>>

\* time passes: time.time() returns more than before
TimePasses ==
    /\ now < MaxClock
    /\ now' = now + 1
    /\ UNCHANGED <<pmVars, besidePM>>

\* the system clock is set back: time.time() returns less than before
ClockSetBack ==
    /\ now > 0
    /\ now' = now - 1
    /\ UNCHANGED <<pmVars, besidePM>>

\* start_pipeline and the monitor while few handles have been built
BoundedStartPipeline == Len(handles) < MaxApiHandles /\ StartPipeline

BoundedTick == Len(handles) < MaxApiHandles /\ Tick

NextAPI ==
    \/ BoundedStartPipeline
    \/ StopPipeline
    \/ BoundedTick
    \/ IsRunning
    \/ GetStats
    \/ GetCurrentMode
    \/ GetPipelineConfig
    \/ TimePasses
    \/ ClockSetBack

SpecAPI == Init /\ [][NextAPI]_vars

(***************************************************************************)
(* One PipelineLifecycleManager driven directly by a caller.               *)
(***************************************************************************)
\* a caller invokes lm.handle_error(error)
HandleError ==
    /\ Len(lmLog) < MaxLog
    /\ lm' = handle_error(lm).m
    /\ lmLog' = Append(lmLog, [op |-> "handle_error", ret |-> handle_error(lm).ret])
    /\ UNCHANGED <<pmVars, ndiVars, now, lmPipeline, built, bus>>

\* a caller invokes lm.reset_retry_count()
ResetRetryCount ==
    /\ Len(lmLog) < MaxLog
    /\ lm' = reset_retry_count(lm)
    /\ lmLog' = Append(lmLog, [op |-> "reset_retry_count", ret |-> FALSE])
    /\ UNCHANGED <<pmVars, ndiVars, now, lmPipeline, built, bus>>

NextLM == HandleError \/ ResetRetryCount

SpecLM == Init /\ [][NextLM]_vars

\* what the hooks and the handle may do during start() and during stop()
StartOutcomes ==
    {"ok", "pre_false", "pre_raise", "create_false", "create_raise",
     "start_false", "start_raise", "post_raise"}

StopOutcomes == {"ok", "pre_raise", "stop_raise", "post_raise"}

\* the manager's start() or stop() has run on its handle and returned
Lifecycled(op, how, r, ret) ==
    lmPipeline' = [h |-> r.h, op |-> op, how |-> how, ret |-> ret,
                   calls |-> r.calls, n |-> lmPipeline.n + 1]

\* a caller invokes lm.start()
LifecycleStart ==
    /\ lmPipeline.n < MaxLifecycle
    /\ \E eng \in StartOutcomes :
          Lifecycled("start", eng, lifecycle_start(lmPipeline.h, eng),
                     lifecycle_start(lmPipeline.h, eng).ret)
    /\ UNCHANGED <<pmVars, lmVars, ndiVars, now, built, bus>>

\* a caller invokes lm.stop(), which returns nothing
LifecycleStop ==
    /\ lmPipeline.n < MaxLifecycle
    /\ \E how \in StopOutcomes :
          Lifecycled("stop", how, lifecycle_stop_hooked(lmPipeline.h, how), FALSE)
    /\ UNCHANGED <<pmVars, lmVars, ndiVars, now, built, bus>>

NextLifecycle == HandleError \/ ResetRetryCount \/ LifecycleStart \/ LifecycleStop

SpecLifecycle == Init /\ [][NextLifecycle]_vars

(***************************************************************************)
(* One PipelineFactory asked for pipelines directly by a caller.           *)
(***************************************************************************)
\* the type names a caller may pass; "rx" and "tx" are registered
PipelineTypes == {"rx", "tx", "xx"}

\* the keys a caller may put in the config
ConfigKeys == {"rtmp_url", "ndi_name", "ndi_source", "video_bitrate", "prefix"}

Configs == {[k \in keys |-> "v"] : keys \in SUBSET ConfigKeys}

\* a caller invokes factory.create_pipeline(pipeline_type, config)
CreatePipeline ==
    /\ \E pipeline_type \in PipelineTypes : \E config \in Configs :
       \E ctor_raises \in BOOLEAN :
          built' = <<[pipeline_type |-> pipeline_type, config |-> config,
                      ctor_raises |-> ctor_raises,
                      result |-> create_pipeline(pipeline_type, config, ctor_raises)]>>
    /\ UNCHANGED <<pmVars, lmVars, ndiVars, now, lmPipeline, bus>>

NextFactory == CreatePipeline

SpecFactory == Init /\ [][NextFactory]_vars

(***************************************************************************)
(* One created pipeline whose bus delivers messages to its handler.        *)
(***************************************************************************)
\* the message types the bus may deliver; the last three have no handler
MessageTypes ==
    {"EOS", "ERROR", "WARNING", "STATE_CHANGED", "ELEMENT", "QOS",
     "TAG", "BUFFERING", "LATENCY"}

\* the bus emits "message" and the connected handle_message runs
HandleMessage ==
    /\ Len(bus.log) < MaxMessages
    /\ \E message_type \in MessageTypes :
          bus' = [h |-> handle_message(bus.h, message_type).h,
                  log |-> Append(bus.log,
                                 [type |-> message_type,
                                  ret |-> handle_message(bus.h, message_type).ret])]
    /\ UNCHANGED <<pmVars, lmVars, ndiVars, now, lmPipeline, built>>

NextBus == HandleMessage

SpecBus == Init /\ [][NextBus]_vars

(***************************************************************************)
(* One NDIManager driven directly by a caller, on a network whose NDI      *)
(* outputs come and go.                                                    *)
(***************************************************************************)
RX0 == VANB_RX_DASH \o <<"0">>
RX1 == VANB_RX_DASH \o <<"1">>
RX2 == VANB_RX_DASH \o <<"2">>
RX3 == VANB_RX_DASH \o <<"3">>
RX_NEG1 == VANB_RX_DASH \o <<"-", "1">>
RX_X == VANB_RX_DASH \o <<"x">>
P1 == <<"P", "-", "1">>

\* the names the outputs of the network may carry
Network == {RX0, RX1, RX2, RX3, RX_NEG1, RX_X, P1, CAM, HOST_RX1}

\* an output named n is announced
Appear ==
    /\ \E n \in Network \ peers : peers' = peers \cup {n}
    /\ allocated' = None
    /\ UNCHANGED <<pmVars, lmVars, now, lmPipeline, built, bus>>

\* an output named n goes away
Vanish ==
    /\ \E n \in peers : peers' = peers \ {n}
    /\ allocated' = None
    /\ UNCHANGED <<pmVars, lmVars, now, lmPipeline, built, bus>>

\* a caller invokes generate_unique_name(prefix); the scan collects the peers,
\* or returns None when the device monitor cannot be set up
GenerateUniqueName ==
    /\ \E prefix \in Prefixes : \E scan \in {None, <<peers>>} :
         allocated' = <<[prefix |-> prefix,
                         names |-> IF scan = None THEN {} ELSE peers,
                         result |-> generate_unique_name(prefix, scan)]>>
    /\ UNCHANGED <<peers, pmVars, lmVars, now, lmPipeline, built, bus>>

NextNDI == Appear \/ Vanish \/ GenerateUniqueName

SpecNDI == Init /\ [][NextNDI]_vars

(***************************************************************************)
(* Properties.                                                             *)
(***************************************************************************)
Count(seq, x) == Cardinality({i \in 1..Len(seq) : seq[i] = x})

\* the calls lmLog[from..to] are all handle_error
AllHandleError(from, to) == \A i \in from..to : lmLog[i].op = "handle_error"

\* C1: on a fresh PipelineLifecycleManager, with no reset_retry_count in between,
\* the 1st, 2nd and 3rd handle_error return true and the 4th returns false.
C1_ThreeRetriesThenTerminal ==
    \A k \in 1..Len(lmLog) :
        (k <= 4 /\ AllHandleError(1, k)) => lmLog[k].ret = (k <= 3)

C1_Witness ==
    /\ Len(lmLog) = 4
    /\ AllHandleError(1, 4)
    /\ lm.retry_count = 4

\* C2: after reset_retry_count, whatever number of handle_error calls came before,
\* the next three handle_error calls return true and the fourth returns false.
C2_ResetRestartsCycle ==
    \A r \in 1..Len(lmLog) :
        lmLog[r].op = "reset_retry_count" =>
            \A j \in 1..4 :
                (r + j <= Len(lmLog) /\ AllHandleError(r + 1, r + j))
                    => lmLog[r + j].ret = (j <= 3)

C2_Witness ==
    /\ Len(lmLog) = 9
    /\ AllHandleError(1, 4)
    /\ lmLog[5].op = "reset_retry_count"
    /\ AllHandleError(6, 9)

\* C3: while every liveness check since the last external start_pipeline has
\* failed, the monitor performs at most 3 automatic restarts.
C3_AtMostThreeRestarts == restarts <= MaxRetries

\* the handles other than the one of the current context
Others ==
    {i \in 1..Len(handles) : context = None \/ i # context[1].pipeline}

\* C4 as claimed: every start_pipeline called with a context active ends with
\* exactly one context, holding a newly created handle, the old handle stopped.
C4_AlwaysOneContext ==
    (last.op = "start_pipeline" /\ last.had_context) =>
        /\ context # None
        /\ context[1].pipeline = Len(handles)
        /\ handles[context[1].pipeline].stops = 0
        /\ \A i \in Others : handles[i].state = "stopped"

\* C4 as amended: every start_pipeline called with a context active ends with
\* the old handle stopped and at most one context: a context holding a newly
\* built handle when config building and the factory succeeded (also when the
\* lifecycle start then fails), and no context otherwise.
C4_OldStoppedAtMostOneContext ==
    (last.op = "start_pipeline" /\ last.had_context) =>
        /\ \A i \in Others : handles[i].state = "stopped" /\ handles[i].stops = 1
        /\ Count(last.calls, "stop") = 1
        /\ IF last.stage \in {"config", "factory"}
           THEN context = None
           ELSE /\ context # None
                /\ context[1].pipeline = Len(handles)
                /\ Count(last.calls, "construct") = 1
                /\ handles[context[1].pipeline].stops = 0

C4_Witness ==
    /\ last.op = "start_pipeline"
    /\ last.had_context
    /\ last.stage = "start"
    /\ Len(handles) >= 2

\* a handle is live: create() was invoked on it and stop() was not
Live(i) == handles[i].state \in {"create_failed", "start_failed", "playing"}
               /\ handles[i].stops = 0

\* C5: at most one handle is live, it is the one of the context, and every
\* handle built before the newest one has had its stop() called.
C5_AtMostOneLiveHandle ==
    /\ Cardinality({i \in 1..Len(handles) : Live(i)}) <= 1
    /\ \A i \in 1..Len(handles) : Live(i) => context # None /\ context[1].pipeline = i
    /\ \A i \in 1..(Len(handles) - 1) : handles[i].stops >= 1

C5_Witness ==
    /\ last.op = "monitor"
    /\ last.he = "true"
    /\ Len(handles) >= 3
    /\ context # None
    /\ Live(context[1].pipeline)

\* C6: when the lifecycle start fails inside start_pipeline, start_pipeline
\* returns false and no context is recorded afterwards.
C6_FailedStartLeavesNoContext ==
    (last.op = "start_pipeline" /\ last.stage = "start") =>
        /\ ~last.ret
        /\ context = None
        /\ get_current_mode(Manager) = None
        /\ get_pipeline_config(Manager) = None

\* C7: when config building fails or the factory returns None, start_pipeline
\* returns false, records no config and no context, does not start the monitor
\* and invokes neither create() nor start() on a handle.
C7_FailedBuildLeavesNothing ==
    (last.op = "start_pipeline" /\ last.stage \in {"config", "factory"}) =>
        /\ ~last.ret
        /\ context = None
        /\ get_pipeline_config(Manager) = None
        /\ ~monitoring
        /\ timers.cur = 0
        /\ \A c \in {"timeout_add", "pre_start", "create", "start", "post_start"} :
              Count(last.calls, c) = 0

C7_Witness ==
    /\ last.op = "start_pipeline"
    /\ last.stage = "factory"
    /\ last.had_context
    /\ timers.old > 0

\* C8: stop_pipeline with no context is a no-op: no collaborator is called and
\* the context, the monitoring flag, the timers, the handles and every retry
\* counter are unchanged.
C8_StopWithoutContextIsNoOp ==
    [][(last'.op = "stop_pipeline" /\ context = None) =>
          /\ UNCHANGED <<context, monitoring, timers, handles, lm>>
          /\ last'.calls = <<>>]_vars

C8_Witness ==
    /\ last.op = "stop_pipeline"
    /\ ~last.had_context
    /\ timers.old > 0

\* C9: stop_pipeline with a context clears the monitoring flag, calls
\* LifecycleManager.stop() once on it (pipeline.stop() once) and clears the
\* context, also when pipeline.stop() raises; a stop_pipeline that follows it
\* changes nothing and calls pipeline.stop() no further time.
C9_StopIsIdempotent ==
    [][/\ (last'.op = "stop_pipeline" /\ context # None) =>
              /\ ~monitoring'
              /\ context' = None
              /\ Count(last'.calls, "pre_stop") = 1
              /\ Count(last'.calls, "stop") = 1
              /\ handles'[context[1].pipeline].stops = handles[context[1].pipeline].stops + 1
       /\ (last.op = "stop_pipeline" /\ last'.op = "stop_pipeline") =>
              /\ UNCHANGED <<context, monitoring, timers, handles>>
              /\ last'.calls = <<>>]_vars

C9_Witness ==
    /\ last.op = "stop_pipeline"
    /\ last.had_context
    /\ last.calls = <<"pre_stop", "stop">>

\* C10: a monitor-driven restart records in the new context the mode and,
\* field for field, the config of the context it replaced.
C10_RestartReplaysConfig ==
    [][(last'.op = "monitor" /\ last'.he = "true" /\ context' # None) =>
          /\ context'[1].mode = context[1].mode
          /\ context'[1].config = context[1].config]_vars

\* C11: a monitor-driven restart of a Transmit context invokes no discovery
\* scan, and the new context uses the source name of the context it replaced,
\* whatever the network holds at the restart.
C11_TransmitRestartKeepsSource ==
    [][(last'.op = "monitor" /\ last'.he = "true" /\ context[1].mode = "TRANSMIT") =>
          /\ Count(last'.calls, "scan") = 0
          /\ context' # None =>
                /\ context'[1].mode = "TRANSMIT"
                /\ context'[1].config.ndi_source = context[1].config.ndi_source]_vars

\* restarted with a source that was auto-selected, while a scan would now put
\* another peer first
C11_Witness ==
    /\ last.op = "monitor"
    /\ last.he = "true"
    /\ last.stage = "ok"
    /\ last.req.scan = <<{CAM, HOST_RX1}>>
    /\ context # None
    /\ context[1].mode = "TRANSMIT"
    /\ context[1].config.ndi_source = HOST_RX1

\* C12: once the retries are exhausted (three automatic restarts made and the
\* liveness check fails again) handle_error returns false to the monitor, and
\* the monitor then attempts no restart and deregisters.
C12_ExhaustedMonitorStops ==
    [][(last'.op = "monitor" /\ restarts = MaxRetries
            /\ Count(last'.calls, "handle_error") = 1) =>
          /\ last'.he = "false"
          /\ ~last'.ret
          /\ Count(last'.calls, "construct") = 0]_vars

\* a pipeline is running
Running == context # None /\ handles[context[1].pipeline].state = "playing"

\* C13: a state the monitor has left with no pipeline running and with no
\* tick that will attempt a restart (the flag is clear) is a state where the
\* retry bound has been exceeded.
C13_StoppedOnlyWhenExhausted ==
    (last.op = "monitor" /\ last.he = "true" /\ ~Running /\ ~monitoring) =>
        \/ restarts > MaxRetries
        \/ context # None /\ context[1].lifecycle_manager.retry_count > MaxRetries

\* C14: a monitor callback that was registered before a stop cleared the flag
\* does nothing and deregisters when it fires, also when the flag has been
\* set again since.
C14_StaleMonitorIsNoOp ==
    [][(last'.op = "monitor" /\ last'.gen = "old") =>
          /\ ~last'.ret
          /\ timers'.old = timers.old - 1
          /\ last'.calls = <<>>
          /\ UNCHANGED <<context, monitoring, handles>>]_vars

\* C15: a monitor tick that fires while no context is recorded calls nothing
\* (no verify_stream, handle_error, stop or start), attempts no restart and
\* leaves the context, the flag and the handles as they are.
C15_TickWithoutContextIsNoOp ==
    [][(last'.op = "monitor" /\ context = None) =>
          /\ last'.calls = <<>>
          /\ last'.he = "none"
          /\ last'.stage = "none"
          /\ UNCHANGED <<context, monitoring, handles>>]_vars

\* a tick fired after a stop had cleared the context of a started pipeline
C15_Witness ==
    /\ last.op = "monitor"
    /\ ~last.had_context
    /\ context = None
    /\ Len(handles) >= 1
    /\ handles[Len(handles)].stops = 1

\* the name prefix-k
Numbered(prefix, k) == prefix \o <<"-">> \o FormatInt(k)

\* the smallest positive integer k for which prefix-k is not among names
SmallestFree(prefix, names) ==
    CHOOSE m \in 1..(Cardinality(names) + 1) :
        /\ Numbered(prefix, m) \notin names
        /\ \A k \in 1..(m - 1) : Numbered(prefix, k) \in names

\* C16: for any prefix P and any existing names, the allocator returns P-m
\* with m the smallest positive integer for which P-m is not an existing name.
C16_FirstGapForAnyPrefix ==
    allocated # None =>
        allocated[1].result =
            [ok |-> TRUE,
             name |-> Numbered(allocated[1].prefix,
                               SmallestFree(allocated[1].prefix, allocated[1].names))]

\* C17: with the peer set unchanged between scan and validation, name
\* allocation never fails, for any prefix.
C17_AllocationNeverFails == allocated # None => allocated[1].result.ok

\* the names of exactly the form prefix-<positive integer>
ExactForm(prefix) == {Numbered(prefix, k) : k \in 1..9}

\* the allocation for prefix is the same with and without the name n
Ignored(prefix, names, n) ==
    generate_unique_name(prefix, <<names \cup {n}>>)
        = generate_unique_name(prefix, <<names \ {n}>>)

C19_ReturnedNameIsFree ==
    (allocated # None /\ allocated[1].result.ok) =>
        allocated[1].result.name \notin allocated[1].names

C19_Witness ==
    /\ allocated # None
    /\ allocated[1].result.ok
    /\ {RX1, RX3, P1} \subseteq allocated[1].names
    /\ allocated[1].result.name = RX2

\* the active sources of the scan the last call ran, in the order
\* NDIManager.scan_sources returns them
ActiveScanned ==
    SelectSeq(scan_sources(last.req.scan), LAMBDA src : src.is_active)

\* C20: a Transmit start with no explicit source resolves the first active
\* peer in the order the scan returns; when the scan returns no active peer
\* start_pipeline returns false and no context is recorded.
C20_AutoSelectsFirstActivePeer ==
    (/\ last.op = "start_pipeline"
     /\ last.req.mode = "TRANSMIT"
     /\ Has(last.req.kwargs, "rtmp_url")
     /\ Get(last.req.kwargs, "ndi_source", <<>>) = <<>>) =>
        IF ActiveScanned = <<>>
        THEN ~last.ret /\ last.stage = "config" /\ context = None
        ELSE /\ last.stage # "config"
             /\ context # None =>
                   context[1].config.ndi_source = ActiveScanned[1].name

C20_Witness ==
    /\ last.op = "start_pipeline"
    /\ last.req.mode = "TRANSMIT"
    /\ last.req.kwargs = [rtmp_url |-> "rtmp://a"]
    /\ last.req.scan = <<{CAM, HOST_RX1}>>
    /\ last.ret
    /\ context[1].config.ndi_source = CAM

\* C21: the config of every recorded context has a non-empty rtmp_url and, for
\* Transmit, a non-empty ndi_source: a start request whose rtmp_url is the
\* empty string records no context.
C21_RecordedConfigHasUrlAndSource ==
    context # None =>
        /\ Has(context[1].config, "rtmp_url")
        /\ context[1].config.rtmp_url # ""
        /\ context[1].mode = "TRANSMIT" => context[1].config.ndi_source # <<>>

\* C23: when the scan returns the failure marker, a Receive start builds its
\* config as with no peer and records the name prefix-1, a Transmit start
\* with an explicit source builds its config, and a Transmit start with no
\* explicit source returns false and records no context.
C23_DiscoveryFailureIsSoft ==
    (/\ last.op = "start_pipeline"
     /\ last.req.scan = None
     /\ Has(last.req.kwargs, "rtmp_url")) =>
        IF last.req.mode = "RECEIVE"
        THEN /\ last.stage # "config"
             /\ context # None =>
                   context[1].config.ndi_name
                       = Numbered(Get(last.req.kwargs, "prefix", VANB_RX), 1)
        ELSE IF Get(last.req.kwargs, "ndi_source", <<>>) # <<>>
        THEN last.stage # "config"
        ELSE ~last.ret /\ last.stage = "config" /\ context = None

\* C30: the retry count a failed health check meets is zero only when a
\* restart has been verified since: on a failed check that follows automatic
\* restarts with no successful check in between, the count has accumulated.
C30_RetryCountAccumulates ==
    [][(last'.op = "monitor" /\ Count(last'.calls, "handle_error") = 1
            /\ restarts >= 1) =>
          context[1].lifecycle_manager.retry_count >= restarts]_vars

\* the public operations of the PipelineManager
PublicOps ==
    {"start_pipeline", "stop_pipeline", "is_running", "get_stats",
     "get_current_mode", "get_pipeline_config"}

\* C22: no exception leaves a public operation of the PipelineManager,
\* whatever the collaborators do.
C22_NoExceptionLeavesPublicSurface == last.op \in PublicOps => ~last.raised

\* C24: of two get_stats() calls with no other operation between them, the
\* second reports a greater running_time than the first.
C24_RunningTimeStrictlyIncreases ==
    (last.op = "get_stats" /\ last.value # None /\ last.prev # None) =>
        last.value[1].running_time > last.prev[1].running_time

\* the queries that answer None without a context
NullableQueries == {"get_stats", "get_current_mode", "get_pipeline_config"}

\* C25: without a context, which is the case before the first start, after
\* stop_pipeline and after a failed start, is_running() returns false and
\* get_stats(), get_current_mode() and get_pipeline_config() return None; with
\* a context get_current_mode() and get_pipeline_config() return its mode and
\* config, which stay as they are for as long as the context is recorded.
C25_QueriesFollowContext ==
    [][/\ (last'.op = "is_running" /\ context = None) =>
              last'.value = <<FALSE>> /\ ~last'.raised
       /\ (last'.op \in NullableQueries /\ context = None) =>
              last'.value = None /\ ~last'.raised
       /\ (/\ last'.op \in NullableQueries
           /\ \/ last.op \in {"init", "stop_pipeline"}
              \/ last.op = "start_pipeline" /\ ~last.ret) =>
              last'.value = None /\ ~last'.raised
       /\ (last'.op = "get_current_mode" /\ context # None) =>
              last'.value = <<context[1].mode>>
       /\ (last'.op = "get_pipeline_config" /\ context # None) =>
              last'.value = <<context[1].config>>
       /\ (context # None /\ context' # None
               /\ context'[1].pipeline = context[1].pipeline) =>
              /\ context'[1].mode = context[1].mode
              /\ context'[1].config = context[1].config]_vars

\* C26: create_pipeline returns None when the type is not registered, when a
\* key the type requires (rtmp_url and ndi_name for rx, rtmp_url and
\* ndi_source for tx) is missing from the config, or when the constructor
\* raises; in every other case it returns a handle.
C26_FactoryReturnsNoneOnBadInput ==
    built # None =>
        (built[1].result = None <=>
            \/ built[1].pipeline_type \notin {"rx", "tx"}
            \/ /\ built[1].pipeline_type = "rx"
               /\ ~({"rtmp_url", "ndi_name"} \subseteq DOMAIN built[1].config)
            \/ /\ built[1].pipeline_type = "tx"
               /\ ~({"rtmp_url", "ndi_source"} \subseteq DOMAIN built[1].config)
            \/ built[1].ctor_raises)

\* a tx pipeline was asked for with the keys of an rx config and a constructor
\* that would not have raised
C26_Witness ==
    /\ built # None
    /\ built[1].pipeline_type = "tx"
    /\ DOMAIN built[1].config = {"rtmp_url", "ndi_name"}
    /\ ~built[1].ctor_raises
    /\ built[1].result = None

\* the steps of PipelineLifecycleManager.start in the order of the code
StartSteps == <<"pre_start", "create", "start", "post_start">>

\* the step of start() at which the outcome how makes it fail
FailsAt(how) ==
    CASE how \in {"pre_false", "pre_raise"} -> 1
      [] how \in {"create_false", "create_raise"} -> 2
      [] how \in {"start_false", "start_raise"} -> 3
      [] OTHER -> 4

\* C27: start() invokes pre_start, create(), start(), post_start in that
\* order up to and including the first step that returns false or raises, no
\* step after it, and returns true exactly when every step succeeded.
C27_StartRunsStepsInOrder ==
    lmPipeline.op = "start" =>
        /\ lmPipeline.calls = SubSeq(StartSteps, 1, FailsAt(lmPipeline.how))
        /\ lmPipeline.ret <=> lmPipeline.how = "ok"

\* a second start() of the same manager failed at the handle's create()
C27_Witness ==
    /\ lmPipeline.op = "start"
    /\ lmPipeline.how = "create_raise"
    /\ lmPipeline.n = 2
    /\ lmPipeline.calls = <<"pre_start", "create">>
    /\ ~lmPipeline.ret

\* C28: every call of stop() invokes the handle's stop(), also when the
\* pre_stop hook raises.
C28_StopAlwaysStopsHandle ==
    lmPipeline.op = "stop" => Count(lmPipeline.calls, "stop") = 1

\* C29: handle_error adds exactly one to the retry counter, whatever it
\* returns; reset_retry_count sets it to 0; no other operation changes it,
\* start() and stop() included.
C29_RetryCounterFrame ==
    [][/\ (lmLog' # lmLog /\ lmLog'[Len(lmLog')].op = "handle_error") =>
              lm'.retry_count = lm.retry_count + 1
       /\ (lmLog' # lmLog /\ lmLog'[Len(lmLog')].op = "reset_retry_count") =>
              lm'.retry_count = 0
       /\ lmLog' = lmLog => lm' = lm
       /\ lmPipeline' # lmPipeline => lm' = lm]_vars

\* handle_error has answered False on a counter already above the maximum, after
\* a start() and a stop() of the manager
C29_Witness ==
    /\ lm.retry_count = MaxRetries + 2
    /\ lmLog # <<>>
    /\ lmLog[Len(lmLog)] = [op |-> "handle_error", ret |-> FALSE]
    /\ lmPipeline.n = MaxLifecycle

\* the place of the first x in seq, Len(seq) + 1 when there is none
First(seq, x) ==
    IF Count(seq, x) = 0 THEN Len(seq) + 1
    ELSE CHOOSE i \in 1..Len(seq) :
            seq[i] = x /\ \A j \in 1..(i - 1) : seq[j] # x

\* the calls start_pipeline makes on the scanner, the factory, the lifecycle
\* of the new handle and the event loop
StartCalls ==
    {"scan", "construct", "pre_start", "create", "start", "post_start", "timeout_add"}

\* C31: on a tick whose check fails and whose handle_error returns true, the
\* calls come in the order handle_error, stop() of the context's handle (once,
\* after which the context is no longer the recorded one), the cooldown, and
\* only then the calls of a start for the saved mode: nothing is constructed
\* or created before the stop and the cooldown.
C31_RestartStopsSleepsThenStarts ==
    [][(last'.op = "monitor" /\ last'.he = "true") =>
          /\ Count(last'.calls, "handle_error") = 1
          /\ Count(last'.calls, "stop") = 1
          /\ Count(last'.calls, "sleep") = 1
          /\ First(last'.calls, "handle_error") < First(last'.calls, "stop")
          /\ First(last'.calls, "stop") < First(last'.calls, "sleep")
          /\ \A i \in 1..Len(last'.calls) :
                last'.calls[i] \in StartCalls => i > First(last'.calls, "sleep")
          /\ last'.stage # "none"
          /\ handles'[context[1].pipeline].stops = handles[context[1].pipeline].stops + 1
          /\ context' # None =>
                /\ context'[1].pipeline = Len(handles) + 1
                /\ context'[1].mode = context[1].mode]_vars

\* a restart whose stop() raised has created and started a new handle
C31_Witness ==
    /\ last.op = "monitor"
    /\ last.he = "true"
    /\ last.calls = <<"verify_stream", "handle_error", "pre_stop", "stop", "sleep",
                      "construct", "pre_start", "create", "start", "post_start",
                      "timeout_add">>
    /\ context # None
    /\ context[1].pipeline = 2

\* C32: a tick on which the pipeline is alive changes neither the context,
\* the handles, the retry counter nor the monitoring flag, does not call
\* handle_error, and its timer stays registered.
C32_AliveTickChangesNothing ==
    [][(last'.op = "monitor" /\ last'.req.vs = "alive") =>
          /\ context' = context
          /\ handles' = handles
          /\ monitoring' = monitoring
          /\ timers' = timers
          /\ last'.ret
          /\ Count(last'.calls, "handle_error") = 0]_vars

\* a timer registered by an earlier start has found the restarted pipeline alive
C32_Witness ==
    /\ last.op = "monitor"
    /\ last.req.vs = "alive"
    /\ last.gen = "old"
    /\ last.ret
    /\ context # None
    /\ context[1].pipeline > 1
    /\ timers.old > 0

\* C33: when the check of a monitored pipeline fails and the start of the
\* restart succeeds, the tick ends with a new context of the same mode, the
\* flag set and a timer registered; a failed check on a
\* monitored context, a restarted one included, calls handle_error.
C33_RestartedPipelineIsMonitored ==
    [][/\ (last'.op = "monitor" /\ last'.he = "true" /\ last'.stage = "ok") =>
              /\ context' # None
              /\ context'[1].pipeline = Len(handles) + 1
              /\ context'[1].mode = context[1].mode
              /\ monitoring'
              /\ timers'.old + timers'.cur >= 1
       /\ (/\ last'.op = "monitor" /\ last'.req.vs = "dead"
           /\ monitoring /\ context # None) =>
              Count(last'.calls, "handle_error") = 1]_vars

\* the pipeline built by one restart has failed its check and has been
\* restarted in turn
C33_Witness ==
    /\ last.op = "monitor"
    /\ last.he = "true"
    /\ last.stage = "ok"
    /\ restarts = 2
    /\ monitoring
    /\ context # None
    /\ context[1].pipeline = 3

\* the registered monitor callbacks that will act on the context when they
\* fire: every registered one while the flag is set
LiveTimers == IF monitoring THEN timers.old + timers.cur ELSE 0

\* C35: at most one monitor callback is registered that will act on the
\* current context, after any sequence of starts, stops and restarts.
C35_AtMostOneLiveTimer == LiveTimers <= 1

\* C36: while the monitoring flag is set a context exists and at least one
\* monitor callback is registered.
C36_FlagMeansMonitored ==
    monitoring => context # None /\ timers.old + timers.cur >= 1

\* C37: the retry counter of the lifecycle manager of the recorded context
\* never exceeds 1, and handle_error never returns false to the monitor.
C37_ContextCounterAtMostOne ==
    /\ context # None => context[1].lifecycle_manager.retry_count <= 1
    /\ last.op = "monitor" => last.he # "false"

\* more restarts than the retry bound have been approved in a row
C37_Witness ==
    /\ last.op = "monitor"
    /\ last.he = "true"
    /\ restarts = MaxRetries + 1
    /\ context # None
    /\ context[1].lifecycle_manager.retry_count = 0

\* C34: the message handler stops the pipeline, and answers False, exactly
\* for the message types EOS and ERROR; for WARNING, STATE_CHANGED, ELEMENT,
\* QOS and every type without a handler it answers True and leaves the
\* pipeline as it is.
C34_OnlyTerminalMessagesStop ==
    [][bus'.log # bus.log =>
          IF bus'.log[Len(bus'.log)].type \in {"EOS", "ERROR"}
          THEN /\ bus'.h.state = "stopped"
               /\ bus'.h.stops = bus.h.stops + 1
               /\ ~bus'.log[Len(bus'.log)].ret
          ELSE /\ bus'.h = bus.h
               /\ bus'.log[Len(bus'.log)].ret]_vars

\* a warning and a message without a handler have left the pipeline playing,
\* then an error has stopped it
C34_Witness ==
    /\ bus.log = <<[type |-> "WARNING", ret |-> TRUE],
                   [type |-> "TAG", ret |-> TRUE],
                   [type |-> "ERROR", ret |-> FALSE]>>
    /\ bus.h = [state |-> "stopped", stops |-> 1]

====
